---- MODULE Spec2Model ----
(***************************************************************************)
(* markdown2html.py: a line-oriented converter from a restricted Markdown  *)
(* dialect to HTML.  The main block reads the input one line at a time,    *)
(* classifies the line (heading, list item, paragraph text, none), closes  *)
(* and opens blocks, and writes fragments to the output file.              *)
(*                                                                         *)
(* A text is a sequence of one-character strings.  Inside a text the tags  *)
(* the program inserts ("<b>", "</em>", ...) are single elements, and the  *)
(* output file is the sequence of elements written to it, so that the      *)
(* file's content is the concatenation of its elements.                    *)
(***************************************************************************)
EXTENDS Integers, Sequences, FiniteSets, TLC

VARIABLES
    mdfile,             \* the lines of the input read so far (for line in mdfile)
    htmlfile,           \* what this run has written to the output file
    list_started,       \* flag: a list is open
    paragraph_started,  \* flag: a paragraph is open
    list_type,          \* "", "ul" or "ol"
    pc,                 \* "loop", "done" (after the flush) or "raised" (IndexError);
                        \* before the loop "start", "isfile", "open"; "exit1" after exit(1)
    last,               \* what the last step wrote, and the state it started from
    argv,               \* sys.argv[1:]: how many arguments, and whether the first
                        \* names an existing regular file
    disk,               \* the output file on disk: whether it exists, and its content
    runs,               \* the invocations of the program so far
    total,              \* the lines read by all the invocations so far
    arg,                \* the argument of a call of one of the inline transforms
    returned            \* the transform called and the value it returned

vars == <<mdfile, htmlfile, list_started, paragraph_started, list_type, pc, last,
          argv, disk, runs, total, arg, returned>>

\* The longest document read.
MaxLines == 3

(***************************************************************************)
(* Characters and the str methods the program uses.                        *)
(***************************************************************************)
Whitespace == {" ", "\n", "\t"}

Letters == {"a", "b", "c", "C"}

Min(S) == CHOOSE m \in S : \A n \in S : m <= n

\* str.startswith(prefix)
StartsWith(text, prefix) ==
    /\ Len(text) >= Len(prefix)
    /\ SubSeq(text, 1, Len(prefix)) = prefix

\* str.isspace(): at least one character and all of them whitespace
IsSpace(text) ==
    /\ Len(text) > 0
    /\ \A i \in 1..Len(text) : text[i] \in Whitespace

\* str.strip(): drops the whitespace at both ends
Strip(text) ==
    LET keep == {i \in 1..Len(text) : text[i] \notin Whitespace}
    IN  IF keep = {} THEN <<>>
        ELSE SubSeq(text, Min(keep), CHOOSE m \in keep : \A n \in keep : n <= m)

\* str.find(sub) for a two-character sub: the position of the first
\* occurrence, counted from 1; 0 when there is none (Python: -1)
Find(text, sub) ==
    LET at == {i \in 1..(Len(text) - 1) : text[i] = sub[1] /\ text[i + 1] = sub[2]}
    IN  IF at = {} THEN 0 ELSE Min(at)

\* sub in text
Contains(text, sub) == Find(text, sub) # 0

\* str.split(sep) for a two-character sep: leftmost, non-overlapping
RECURSIVE Split(_, _)
Split(text, sep) ==
    LET p == Find(text, sep)
    IN  IF p = 0 THEN <<text>>
        ELSE <<SubSeq(text, 1, p - 1)>> \o Split(SubSeq(text, p + 2, Len(text)), sep)

\* ''.join(parts)
RECURSIVE Join(_)
Join(parts) ==
    IF parts = <<>> THEN <<>> ELSE Head(parts) \o Join(Tail(parts))

\* str.replace(ch, ''): every occurrence of one character removed
RECURSIVE Remove(_, _)
Remove(text, ch) ==
    IF text = <<>> THEN <<>>
    ELSE IF Head(text) = ch THEN Remove(Tail(text), ch)
    ELSE <<Head(text)>> \o Remove(Tail(text), ch)

(***************************************************************************)
(* The inline transforms.                                                  *)
(***************************************************************************)
Bold == <<"*", "*">>

Emphasis == <<"_", "_">>

\* tag = 'b' if markdown == '**' else 'em'
Tag(markdown) == IF markdown = Bold THEN "b" ELSE "em"

\* WrappedIndex for range(0, len(parts), 2): the parts outside the pairs.
WrappedIndex_fromZero(index, parts) == index % 2 = 1

\* for index in range(1, len(parts), 2): the parts at the odd indices
\* counted from 0, that is the even ones counted from 1
WrappedIndex(index, parts) == index % 2 = 0

WrapParts(parts, tag) ==
    [index \in 1..Len(parts) |->
        IF WrappedIndex(index, parts)
        THEN <<"<" \o tag \o ">">> \o parts[index] \o <<"</" \o tag \o ">">>
        ELSE parts[index]]

bold_emphasis(line, markdown) ==
    Join(WrapParts(Split(line, markdown), Tag(markdown)))

\* hashlib.md5(to_md5.encode()).hexdigest(): the 32 lowercase hexadecimal
\* digits of the digest, for the texts the documents below can put between
\* '[[' and ']]'
hexdigest(to_md5) ==
    CASE to_md5 = <<>> ->
        <<"d", "4", "1", "d", "8", "c", "d", "9", "8", "f", "0", "0", "b", "2", "0", "4",
          "e", "9", "8", "0", "0", "9", "9", "8", "e", "c", "f", "8", "4", "2", "7", "e">>
      [] to_md5 = <<"a">> ->
        <<"0", "c", "c", "1", "7", "5", "b", "9", "c", "0", "f", "1", "b", "6", "a", "8",
          "3", "1", "c", "3", "9", "9", "e", "2", "6", "9", "7", "7", "2", "6", "6", "1">>
      [] to_md5 = <<"c">> ->
        <<"4", "a", "8", "a", "0", "8", "f", "0", "9", "d", "3", "7", "b", "7", "3", "7",
          "9", "5", "6", "4", "9", "0", "3", "8", "4", "0", "8", "b", "5", "f", "3", "3">>
      [] to_md5 = <<"<b>", "a", "</b>">> ->
        <<"d", "0", "d", "0", "b", "3", "7", "1", "e", "0", "7", "f", "a", "a", "3", "5",
          "4", "7", "8", "d", "8", "d", "d", "e", "6", "7", "3", "a", "8", "c", "c", "5">>
      [] to_md5 = <<"*", "*", "a", "*", "*">> ->
        <<"7", "3", "4", "4", "a", "d", "e", "c", "8", "5", "6", "f", "e", "1", "d", "0",
          "8", "2", "4", "0", "9", "5", "1", "a", "9", "c", "7", "5", "f", "6", "7", "6">>
      [] to_md5 = <<"f", "o", "o">> ->
        <<"a", "c", "b", "d", "1", "8", "d", "b", "4", "c", "c", "2", "f", "8", "5", "c",
          "e", "d", "e", "f", "6", "5", "4", "f", "c", "c", "c", "4", "a", "4", "d", "8">>

\* text[opening + 2:closing], text[:opening] and text[closing + 2:], with
\* opening and closing counted from 1: the slices are empty when their
\* bounds cross
Between(text, opening, closing) == SubSeq(text, opening + 2, closing - 1)

Before(text, opening) == SubSeq(text, 1, opening - 1)

After(text, closing) == SubSeq(text, closing + 2, Len(text))

text_to_md5(text) ==
    IF Contains(text, <<"[", "[">>) /\ Contains(text, <<"]", "]">>)
    THEN LET opening == Find(text, <<"[", "[">>)
             closing == Find(text, <<"]", "]">>)
             to_md5  == Between(text, opening, closing)
         IN  Before(text, opening) \o hexdigest(to_md5) \o After(text, closing)
    ELSE text

\* remove_c that goes on removing 'C' and 'c' after the first pair.
remove_c_everyPair(text) ==
    IF Contains(text, <<"(", "(">>) /\ Contains(text, <<")", ")">>)
    THEN LET opening    == Find(text, <<"(", "(">>)
             closing    == Find(text, <<")", ")">>)
             to_replace == Between(text, opening, closing)
             replaced   == Remove(Remove(to_replace, "C"), "c")
         IN  Before(text, opening) \o replaced
                 \o Remove(Remove(After(text, closing), "C"), "c")
    ELSE text

\* remove_c with 'or' for 'and' in its test: one delimiter is enough.
remove_c_either(text) ==
    IF Contains(text, <<"(", "(">>) \/ Contains(text, <<")", ")">>)
    THEN LET opening    == Find(text, <<"(", "(">>)
             closing    == Find(text, <<")", ")">>)
             to_replace == Between(text, opening, closing)
             replaced   == Remove(Remove(to_replace, "C"), "c")
         IN  Before(text, opening) \o replaced \o After(text, closing)
    ELSE text

remove_c(text) ==
    IF Contains(text, <<"(", "(">>) /\ Contains(text, <<")", ")">>)
    THEN LET opening    == Find(text, <<"(", "(">>)
             closing    == Find(text, <<")", ")">>)
             to_replace == Between(text, opening, closing)
             replaced   == Remove(Remove(to_replace, "C"), "c")
         IN  Before(text, opening) \o replaced \o After(text, closing)
    ELSE text

process_line(line) ==
    LET bold_text == bold_emphasis(line, Bold)
        em_text   == bold_emphasis(bold_text, Emphasis)
        hash_text == text_to_md5(em_text)
        no_c_text == remove_c(hash_text)
    IN  no_c_text

(***************************************************************************)
(* The lines a document is made of.  Iterating over the file yields each   *)
(* line with its terminator; only the last line of a file can lack one.    *)
(***************************************************************************)
Lines ==
    { <<"#", " ", "a", "\n">>,                      \* "# a"
      <<"#", "#", " ", "*", "*", "a", "*", "*", "\n">>,  \* "## **a**"
      <<"#", "\n">>,                                \* "#"
      <<"#", " ", "\n">>,                           \* "# "
      <<"#", "a", "\n">>,                           \* "#a"
      <<"-", " ", "a", "\n">>,                      \* "- a"
      <<"*", " ", "b", "\n">>,                      \* "* b"
      <<"-", " ", "\n">>,                           \* "- "
      <<"*", " ", "\n">>,                           \* "* "
      <<"-", " ", "_", "_", "a", "_", "_", "\n">>,  \* "- __a__"
      <<"a", "\n">>,                                \* "a"
      <<"b", "\n">>,                                \* "b"
      <<"\n">>,                                     \* blank
      <<" ", "\n">>,                                \* whitespace only
      <<"[", "[", "a", "]", "]", "\n">>,            \* "[[a]]"
      <<"(", "(", "a", "c", ")", ")", "\n">>,       \* "((ac))"
      <<"a">>,                                      \* "a" at the end of a file
      <<"1", "\n">>,                                \* "1"
      <<"-", "a", "\n">>,                           \* "-a"
      <<" ", "a", "\n">> }                          \* " a"

\* the file has more lines only when the last line read ended in a newline
MoreLines(read) ==
    IF read = <<>> THEN TRUE
    ELSE LET line == read[Len(read)] IN line[Len(line)] = "\n"

(***************************************************************************)
(* The block state machine.  A conversion state is the record of the       *)
(* output written so far and the three variables of the main block.        *)
(***************************************************************************)
State ==
    [htmlfile |-> htmlfile, list_started |-> list_started,
     paragraph_started |-> paragraph_started, list_type |-> list_type]

\* htmlfile.write(fragment): the fragment goes after what is in the file
Write(s, fragment) == [s EXCEPT !.htmlfile = @ \o fragment]

\* CloseList with the assignment list_started = False left out.
CloseList_flagKept(s) ==
    IF s.list_started
    THEN Write(s, <<"</" \o s.list_type \o ">", "\n">>)
    ELSE s

\* if list_started: write the closing tag of the remembered kind, clear the flag
CloseList(s) ==
    IF s.list_started
    THEN [Write(s, <<"</" \o s.list_type \o ">", "\n">>) EXCEPT !.list_started = FALSE]
    ELSE s

\* CloseParagraph that writes the closing tag and leaves the flag set.
CloseParagraph_flagKept(s) ==
    IF s.paragraph_started THEN Write(s, <<"</p>", "\n">>) ELSE s

\* if paragraph_started: write '</p>\n', clear the flag
CloseParagraph(s) ==
    IF s.paragraph_started
    THEN [Write(s, <<"</p>", "\n">>) EXCEPT !.paragraph_started = FALSE]
    ELSE s

\* HashRun with the loop replaced by a single test: the count is 1.
HashRun_one(line) == 1

\* while count < len(line) and line[count] == '#': count += 1
HashRun(line) ==
    LET other == {i \in 1..Len(line) : line[i] # "#"}
    IN  IF other = {} THEN Len(line) ELSE Min(other) - 1

\* line[count] lies outside the line: Python raises IndexError
IndexOutOfRange(line, count) == count >= Len(line)

\* The heading section once the open blocks are closed; line is stripped.
\* The result is the new state, and whether IndexError was raised.
HeadingBody(s, line) ==
    LET count == HashRun(line)
    IN  IF IndexOutOfRange(line, count) THEN [raised |-> TRUE, state |-> s]
        ELSE IF line[count + 1] = " "
        THEN LET text      == SubSeq(line, count + 2, Len(line))
                 head_text == process_line(text)
             IN  [raised |-> FALSE,
                  state  |-> Write(s, <<"<h" \o ToString(count) \o ">">> \o head_text
                                        \o <<"</h" \o ToString(count) \o ">", "\n">>)]
        ELSE [raised |-> FALSE, state |-> s]

\* ListKind with the two kinds exchanged.
ListKind_swapped(line, old) ==
    IF StartsWith(line, <<"-", " ">>) THEN "ol"
    ELSE IF StartsWith(line, <<"*", " ">>) THEN "ul"
    ELSE old

\* if line.startswith('- '): 'ul' elif line.startswith('* '): 'ol', on the
\* stripped line; neither leaves list_type as it was
ListKind(line, old) ==
    IF StartsWith(line, <<"-", " ">>) THEN "ul"
    ELSE IF StartsWith(line, <<"*", " ">>) THEN "ol"
    ELSE old

\* OpenList with the test of list_started left out: every item opens a list.
OpenList_always(s) ==
    [Write(s, <<"<" \o s.list_type \o ">", "\n">>) EXCEPT !.list_started = TRUE]

\* if not list_started: write the opening tag, set the flag
OpenList(s) ==
    IF ~s.list_started
    THEN [Write(s, <<"<" \o s.list_type \o ">", "\n">>) EXCEPT !.list_started = TRUE]
    ELSE s

\* The listing section.
ListSection(s, rawline) ==
    LET s1        == CloseParagraph(s)
        line      == Strip(rawline)
        s2        == [s1 EXCEPT !.list_type = ListKind(line, s1.list_type)]
        text      == SubSeq(line, 3, Len(line))
        s3        == OpenList(s2)
        list_text == process_line(text)
    IN  Write(s3, <<"<li>">> \o list_text \o <<"</li>", "\n">>)

\* ParagraphTransition that opens a paragraph at every non-blank line.
ParagraphTransition_alwaysOpens(s, rawline) ==
    IF ~IsSpace(rawline)
    THEN [Write(s, <<"<p>", "\n">>) EXCEPT !.paragraph_started = TRUE]
    ELSE IF s.paragraph_started
         THEN [Write(s, <<"\n", "</p>", "\n">>) EXCEPT !.paragraph_started = FALSE]
         ELSE s

\* ParagraphTransition with no newline written after the opening tag.
ParagraphTransition_noNewline(s, rawline) ==
    IF ~s.paragraph_started
    THEN IF ~IsSpace(rawline)
         THEN [Write(s, <<"<p>">>) EXCEPT !.paragraph_started = TRUE]
         ELSE s
    ELSE IF IsSpace(rawline)
         THEN [Write(s, <<"\n", "</p>", "\n">>) EXCEPT !.paragraph_started = FALSE]
         ELSE Write(s, <<"\n", "<br/>", "\n">>)

\* The paragraph section's opening, closing and line-break decisions.
ParagraphTransition(s, rawline) ==
    IF ~s.paragraph_started
    THEN IF ~IsSpace(rawline)
         THEN [Write(s, <<"<p>", "\n">>) EXCEPT !.paragraph_started = TRUE]
         ELSE s
    ELSE IF IsSpace(rawline)
         THEN [Write(s, <<"\n", "</p>", "\n">>) EXCEPT !.paragraph_started = FALSE]
         ELSE Write(s, <<"\n", "<br/>", "\n">>)

\* ParagraphSection with the list closed after the paragraph is handled.
ParagraphSection_closeLate(s, rawline) ==
    LET s1             == ParagraphTransition(s, rawline)
        line           == Strip(rawline)
        paragraph_text == process_line(line)
    IN  CloseList(Write(s1, paragraph_text))

\* The paragraph section.
ParagraphSection(s, rawline) ==
    LET s1             == CloseList(s)
        s2             == ParagraphTransition(s1, rawline)
        line           == Strip(rawline)
        paragraph_text == process_line(line)
    IN  Write(s2, paragraph_text)

\* EndOfFile without the closing of the open paragraph.
EndOfFile_listOnly(s) ==
    IF s.list_started
    THEN Write(s, <<"</" \o s.list_type \o ">", "\n">>) ELSE s

\* After the loop: the closing tags of the blocks still open; the flags stay
EndOfFile(s) ==
    LET s1 == IF s.list_started
              THEN Write(s, <<"</" \o s.list_type \o ">", "\n">>) ELSE s
    IN  IF s1.paragraph_started THEN Write(s1, <<"\n", "</p>", "\n">>) ELSE s1

\* The classification chain of the loop body.
IsHeading(line) == StartsWith(line, <<"#">>)

IsListItem(line) == StartsWith(line, <<"-", " ">>) \/ StartsWith(line, <<"*", " ">>)

\* IsParagraph with the letter test made on the stripped line.
IsParagraph_stripped(line) ==
    \/ (Len(Strip(line)) > 0 /\ Strip(line)[1] \in Letters)
    \/ IsSpace(line)
    \/ StartsWith(line, Bold)
    \/ StartsWith(line, Emphasis)
    \/ StartsWith(line, <<"(", "(">>)
    \/ StartsWith(line, <<"[", "[">>)

IsParagraph(line) ==
    \/ (Len(line) > 0 /\ line[1] \in Letters)
    \/ IsSpace(line)
    \/ StartsWith(line, Bold)
    \/ StartsWith(line, Emphasis)
    \/ StartsWith(line, <<"(", "(">>)
    \/ StartsWith(line, <<"[", "[">>)

\* What a step appended to the file.
Written(old, new) == SubSeq(new.htmlfile, Len(old.htmlfile) + 1, Len(new.htmlfile))

\* A file opened in mode 'a' only grows: what is written goes at its end.
AppendToFile(d, fragment) == [d EXCEPT !.content = @ \o fragment]

Init ==
    /\ mdfile = <<>>
    /\ htmlfile = <<>>
    /\ list_started = FALSE
    /\ paragraph_started = FALSE
    /\ list_type = ""
    /\ pc = "loop"
    /\ last = [op |-> "open", line |-> <<>>, wrote |-> <<>>,
               before |-> [htmlfile |-> <<>>, list_started |-> FALSE,
                           paragraph_started |-> FALSE, list_type |-> ""]]
    /\ argv = [count |-> 2, isfile |-> TRUE]
    /\ disk = [exists |-> TRUE, content |-> <<>>]
    /\ runs = 1
    /\ total = 0
    /\ arg = <<>>
    /\ returned = [fn |-> "none", value |-> <<>>]

\* The variables after a step on line that took the state to new.
Becomes(op, line, new, newpc) ==
    /\ htmlfile' = new.htmlfile
    /\ list_started' = new.list_started
    /\ paragraph_started' = new.paragraph_started
    /\ list_type' = new.list_type
    /\ pc' = newpc
    /\ last' = [op |-> op, line |-> line, wrote |-> Written(State, new), before |-> State]
    /\ disk' = AppendToFile(disk, Written(State, new))
    /\ UNCHANGED <<argv, runs, arg, returned>>

\* for line in mdfile: the file yields one more line
NextLine(line) ==
    /\ pc = "loop"
    /\ Len(mdfile) < MaxLines
    /\ MoreLines(mdfile)
    /\ mdfile' = Append(mdfile, line)
    /\ total < MaxLines
    /\ total' = total + 1

\* if line.startswith('#')
HeadingLine(line) ==
    /\ NextLine(line)
    /\ IsHeading(line)
    /\ LET s1   == CloseParagraph(CloseList(State))
           body == HeadingBody(s1, Strip(line))
       IN  Becomes("heading", line, body.state, IF body.raised THEN "raised" ELSE "loop")

\* elif line.startswith('- ') or line.startswith('* ')
ListLine(line) ==
    /\ NextLine(line)
    /\ ~IsHeading(line)
    /\ IsListItem(line)
    /\ Becomes("list", line, ListSection(State, line), "loop")

\* elif the line starts with a letter, is whitespace, or starts with a marker
ParagraphLine(line) ==
    /\ NextLine(line)
    /\ ~IsHeading(line)
    /\ ~IsListItem(line)
    /\ IsParagraph(line)
    /\ Becomes("paragraph", line, ParagraphSection(State, line), "loop")

\* no branch of the chain matches: the loop goes on to the next line
DroppedLine(line) ==
    /\ NextLine(line)
    /\ ~IsHeading(line)
    /\ ~IsListItem(line)
    /\ ~IsParagraph(line)
    /\ Becomes("none", line, State, "loop")

\* the file is exhausted: the statements after the loop
Flush ==
    /\ pc = "loop"
    /\ mdfile' = mdfile
    /\ total' = total
    /\ Becomes("eof", <<>>, EndOfFile(State), "done")

Next ==
    \/ \E line \in Lines : HeadingLine(line)
    \/ \E line \in Lines : ListLine(line)
    \/ \E line \in Lines : ParagraphLine(line)
    \/ \E line \in Lines : DroppedLine(line)
    \/ Flush

Spec == Init /\ [][Next]_vars

TypeOK ==
    /\ list_started \in BOOLEAN
    /\ paragraph_started \in BOOLEAN
    /\ list_type \in {"", "ul", "ol"}
    /\ pc \in {"start", "isfile", "open", "exit1", "loop", "done", "raised"}
    /\ Len(mdfile) <= MaxLines

(***************************************************************************)
(* Vocabulary of the properties.                                           *)
(***************************************************************************)
\* The number of elements of a sequence that lie in a set.
Count(seq, S) == Cardinality({i \in 1..Len(seq) : seq[i] \in S})

\* The tags the listing section can write, whatever list_type holds.
ListOpenTags == {"<ul>", "<ol>", "<>"}

ListCloseTags == {"</ul>", "</ol>", "</>"}

\* The last step read a line (it was not the opening of the files nor the
\* statements after the loop).
LineStep == last.op \in {"heading", "list", "paragraph", "none"}

\* A line that starts with a '#'-run which, once the line is stripped, is
\* followed by the end of the line or by a character other than a space.
RunNotFollowedBySpace(line) ==
    /\ StartsWith(line, <<"#">>)
    /\ LET stripped == Strip(line)
           run      == {n \in 1..Len(stripped) : \A i \in 1..n : stripped[i] = "#"}
           count    == CHOOSE n \in run : \A m \in run : m <= n
       IN  count = Len(stripped) \/ stripped[count + 1] # " "

\* A line of none of the three classes, as the classification chain reads it.
NoMatch(line) ==
    /\ line # <<>>
    /\ line[1] # "#"
    /\ ~(Len(line) >= 2 /\ line[1] \in {"-", "*"} /\ line[2] = " ")
    /\ line[1] \notin Letters
    /\ ~(Len(line) >= 2 /\ line[1] = line[2] /\ line[1] \in {"*", "_", "(", "["})
    /\ \E i \in 1..Len(line) : line[i] \notin Whitespace

(***************************************************************************)
(* C1.  At most one of list_started and paragraph_started is true, after   *)
(* any sequence of lines: a list item closes an open paragraph and a       *)
(* paragraph line closes an open list.                                     *)
(***************************************************************************)
C1_AtMostOneBlockOpen == ~(list_started /\ paragraph_started)

\* A paragraph line has arrived while a list was open, and opened a paragraph.
C1_Witness ==
    /\ last.op = "paragraph"
    /\ last.before.list_started
    /\ paragraph_started

(***************************************************************************)
(* C2.  Once the files are open the conversion never raises: every line is *)
(* processed, also a heading marker with no content ("#", "###", "# ").    *)
(***************************************************************************)
C2_NeverRaises == pc # "raised"

(***************************************************************************)
(* C3.  When a conversion completes, the statements after the loop have    *)
(* closed the block still open: in the final output there are as many list *)
(* closing tags as list opening tags and as many "</p>" as "<p>".          *)
(***************************************************************************)
C3_FlushClosesBlocks ==
    pc = "done" =>
        /\ Count(htmlfile, ListOpenTags) = Count(htmlfile, ListCloseTags)
        /\ Count(htmlfile, {"<p>"}) = Count(htmlfile, {"</p>"})
        /\ last.before.list_started => Count(last.wrote, ListCloseTags) = 1
        /\ last.before.paragraph_started => Count(last.wrote, {"</p>"}) = 1

\* The input ended while a paragraph was open and the conversion completed.
C3_Witness ==
    /\ pc = "done"
    /\ last.before.paragraph_started
    /\ Len(mdfile) >= 2

(***************************************************************************)
(* C4.  A line that starts with a '#'-run not followed by a space writes   *)
(* nothing at all, in every conversion state, also when a list or a        *)
(* paragraph is open when it arrives.                                      *)
(***************************************************************************)
C4_NoEmission ==
    (LineStep /\ RunNotFollowedBySpace(last.line)) => last.wrote = <<>>

(***************************************************************************)
(* C5.  A line of none of the three classes is dropped: nothing is written *)
(* and list_started, paragraph_started and list_type keep their values, so *)
(* an open paragraph or list continues across it.                          *)
(***************************************************************************)
C5_NoMatchDropped ==
    (LineStep /\ NoMatch(last.line)) =>
        /\ last.wrote = <<>>
        /\ htmlfile = last.before.htmlfile
        /\ list_started = last.before.list_started
        /\ paragraph_started = last.before.paragraph_started
        /\ list_type = last.before.list_type
        /\ pc = "loop"

\* An unmatched line has arrived while a paragraph was open.
C5_Witness ==
    /\ LineStep
    /\ NoMatch(last.line)
    /\ last.before.paragraph_started
    /\ paragraph_started

(***************************************************************************)
(* More vocabulary: the classes of lines as the claims name them, the line *)
(* read before the last one, and the items of the output.                  *)
(***************************************************************************)
ListItemLine(line) == Len(line) >= 2 /\ line[1] \in {"-", "*"} /\ line[2] = " "

BlankLine(line) == line # <<>> /\ \A i \in 1..Len(line) : line[i] \in Whitespace

NonBlankParagraphLine(line) ==
    /\ line # <<>>
    /\ \/ line[1] \in Letters
       \/ Len(line) >= 2 /\ line[1] = line[2] /\ line[1] \in {"*", "_", "(", "["}

HeadingMarkerLine(line) == line # <<>> /\ line[1] = "#"

\* The line before the last line read; <<>> when there is none.
Prev == IF Len(mdfile) >= 2 THEN mdfile[Len(mdfile) - 1] ELSE <<>>

\* The content of a list item: the stripped line after its two-character marker.
ItemText(line) == SubSeq(Strip(line), 3, Len(Strip(line)))

\* The transformed contents of the list-item lines of a document, in order.
RECURSIVE ItemsOf(_)
ItemsOf(doc) ==
    IF doc = <<>> THEN <<>>
    ELSE IF ListItemLine(Head(doc))
         THEN <<process_line(ItemText(Head(doc)))>> \o ItemsOf(Tail(doc))
         ELSE ItemsOf(Tail(doc))

\* What stands between each "<li>" and the next "</li>" of an output, in order.
RECURSIVE LiContents(_)
LiContents(out) ==
    LET opens == {i \in 1..Len(out) : out[i] = "<li>"}
    IN  IF opens = {} THEN <<>>
        ELSE LET p      == Min(opens)
                 closes == {i \in (p + 1)..Len(out) : out[i] = "</li>"}
             IN  IF closes = {} THEN <<SubSeq(out, p + 1, Len(out))>>
                 ELSE <<SubSeq(out, p + 1, Min(closes) - 1)>>
                          \o LiContents(SubSeq(out, Min(closes) + 1, Len(out)))

\* The last sequence is the end of the first.
EndsWith(seq, tail) ==
    /\ Len(seq) >= Len(tail)
    /\ SubSeq(seq, Len(seq) - Len(tail) + 1, Len(seq)) = tail

(***************************************************************************)
(* C6.  A list-item line that arrives while no list is open writes the     *)
(* opening tag of its own marker: "<ul>" for "- ", "<ol>" for "* ", also   *)
(* when nothing follows the marker and whatever lists came before.         *)
(***************************************************************************)
C6_OpeningTagMatchesMarker ==
    (LineStep /\ ListItemLine(last.line) /\ ~last.before.list_started) =>
        /\ Count(last.wrote, ListOpenTags) = 1
        /\ Count(last.wrote, {IF last.line[1] = "-" THEN "<ul>" ELSE "<ol>"}) = 1

(***************************************************************************)
(* C7.  What holds of every list-item line and of every document: the      *)
(* line writes an opening tag exactly when no list is open, and then one   *)
(* "<li>content</li>"; the items of the output are those of the input, in  *)
(* order; one closing tag is written when a paragraph line, a heading or   *)
(* the end of the input finds the list open, and nowhere else; "- a" and   *)
(* "- __a__" give <ul>, two items, </ul>.                                  *)
(***************************************************************************)
C7_ListLines ==
    /\ (LineStep /\ ListItemLine(last.line)) =>
          /\ Count(last.wrote, ListOpenTags) = (IF last.before.list_started THEN 0 ELSE 1)
          /\ Count(last.wrote, ListCloseTags) = 0
          /\ Count(last.wrote, {"<li>"}) = 1
          /\ EndsWith(last.wrote, <<"<li>">> \o process_line(ItemText(last.line))
                                     \o <<"</li>", "\n">>)
          /\ ~last.before.list_started =>
                \E i \in 1..Len(last.wrote) :
                    /\ last.wrote[i] \in ListOpenTags
                    /\ last.wrote[i + 2] = "<li>"
          /\ list_started
    /\ (LineStep /\ Len(mdfile) >= 2 /\ ListItemLine(last.line) /\ ListItemLine(Prev)) =>
          Count(last.wrote, ListOpenTags) = 0
    /\ LiContents(htmlfile) = ItemsOf(mdfile)
    /\ Count(last.wrote, ListCloseTags) =
          (IF /\ last.before.list_started
              /\ \/ last.op = "eof"
                 \/ LineStep /\ (HeadingMarkerLine(last.line)
                                  \/ NonBlankParagraphLine(last.line)
                                  \/ BlankLine(last.line))
           THEN 1 ELSE 0)
    /\ Count(htmlfile, ListOpenTags) - Count(htmlfile, ListCloseTags) =
          (IF list_started /\ pc # "done" THEN 1 ELSE 0)
    /\ (pc = "done" /\ mdfile = << <<"-", " ", "a", "\n">>,
                                   <<"-", " ", "_", "_", "a", "_", "_", "\n">> >>) =>
          htmlfile = <<"<ul>", "\n", "<li>", "a", "</li>", "\n",
                       "<li>", "<em>", "a", "</em>", "</li>", "\n", "</ul>", "\n">>

(***************************************************************************)
(* C7, as claimed.  Every run of consecutive list-item lines writes one    *)
(* opening tag, before its first item.                                     *)
(***************************************************************************)
C7_Original ==
    /\ C7_ListLines
    /\ (LineStep /\ ListItemLine(last.line)
            /\ (Len(mdfile) = 1 \/ ~ListItemLine(Prev))) =>
          Count(last.wrote, ListOpenTags) = 1

(***************************************************************************)
(* C7, amended.  A run of consecutive list-item lines that begins while no *)
(* list is open writes one opening tag before its first item; a run that   *)
(* begins while a list is open (the line before it was dropped) writes     *)
(* none.  The rest is as claimed.                                          *)
(***************************************************************************)
C7_RunsOfItems ==
    /\ C7_ListLines
    /\ (LineStep /\ ListItemLine(last.line)
            /\ (Len(mdfile) = 1 \/ ~ListItemLine(Prev))) =>
          /\ ~last.before.list_started => Count(last.wrote, ListOpenTags) = 1
          /\ last.before.list_started =>
                /\ Count(last.wrote, ListOpenTags) = 0
                /\ Len(mdfile) >= 2 /\ NoMatch(Prev)

\* The two list items, of different markers, then the end of the input.
C7_Witness ==
    /\ pc = "done"
    /\ Len(mdfile) = 2
    /\ ListItemLine(mdfile[1]) /\ ListItemLine(mdfile[2])
    /\ mdfile[1][1] # mdfile[2][1]
    /\ Count(htmlfile, {"<li>"}) = 2

(***************************************************************************)
(* C8.  What holds of every non-blank paragraph line and of the blank line *)
(* that follows one: the line opens a paragraph exactly when none is open  *)
(* and is otherwise preceded by one "<br/>"; a line that follows another   *)
(* line of the run writes one "<br/>" and no "<p>"; the blank line after   *)
(* the run writes one "</p>" and clears paragraph_started.                 *)
(***************************************************************************)
C8_ParagraphLines ==
    /\ (LineStep /\ NonBlankParagraphLine(last.line)) =>
          /\ Count(last.wrote, {"<p>"}) = (IF last.before.paragraph_started THEN 0 ELSE 1)
          /\ Count(last.wrote, {"<br/>"}) = (IF last.before.paragraph_started THEN 1 ELSE 0)
          /\ Count(last.wrote, {"</p>"}) = 0
          /\ EndsWith(last.wrote,
                      (IF last.before.paragraph_started
                       THEN <<"<br/>", "\n">> ELSE <<"<p>", "\n">>)
                          \o process_line(Strip(last.line)))
          /\ paragraph_started
    /\ (LineStep /\ Len(mdfile) >= 2 /\ NonBlankParagraphLine(last.line)
            /\ NonBlankParagraphLine(Prev)) =>
          /\ Count(last.wrote, {"<p>"}) = 0
          /\ Count(last.wrote, {"<br/>"}) = 1
    /\ (LineStep /\ Len(mdfile) >= 2 /\ BlankLine(last.line)
            /\ NonBlankParagraphLine(Prev)) =>
          /\ last.wrote = <<"\n", "</p>", "\n">>
          /\ ~paragraph_started
    /\ (pc = "loop" /\ mdfile = << <<"a", "\n">>, <<"b", "\n">>, <<"\n">> >>) =>
          htmlfile = <<"<p>", "\n", "a", "\n", "<br/>", "\n", "b", "\n", "</p>", "\n">>

(***************************************************************************)
(* C8, as claimed.  Every run of consecutive non-blank paragraph lines     *)
(* opens one "<p>", at its first line.                                     *)
(***************************************************************************)
C8_Original ==
    /\ C8_ParagraphLines
    /\ (LineStep /\ NonBlankParagraphLine(last.line)
            /\ (Len(mdfile) = 1 \/ ~NonBlankParagraphLine(Prev))) =>
          Count(last.wrote, {"<p>"}) = 1

(***************************************************************************)
(* C8, amended.  A run of consecutive non-blank paragraph lines that       *)
(* begins while no paragraph is open opens one "<p>" at its first line; a  *)
(* run that begins while a paragraph is open (the line before it was       *)
(* dropped) opens none and starts with "<br/>".  The rest is as claimed.   *)
(***************************************************************************)
C8_RunsOfParagraphLines ==
    /\ C8_ParagraphLines
    /\ (LineStep /\ NonBlankParagraphLine(last.line)
            /\ (Len(mdfile) = 1 \/ ~NonBlankParagraphLine(Prev))) =>
          /\ ~last.before.paragraph_started => Count(last.wrote, {"<p>"}) = 1
          /\ last.before.paragraph_started =>
                /\ Count(last.wrote, {"<p>"}) = 0
                /\ Count(last.wrote, {"<br/>"}) = 1
                /\ Len(mdfile) >= 2 /\ NoMatch(Prev)

\* Two non-blank paragraph lines, then a blank line.
C8_Witness ==
    /\ pc = "loop"
    /\ Len(mdfile) = 3
    /\ NonBlankParagraphLine(mdfile[1])
    /\ NonBlankParagraphLine(mdfile[2])
    /\ BlankLine(mdfile[3])
    /\ Count(htmlfile, {"<br/>"}) = 1

(***************************************************************************)
(* C9.  A paragraph line, blank or not, that arrives while a list is open  *)
(* writes the list's closing tag before anything else and leaves           *)
(* list_started false; a blank line that arrives while no paragraph is     *)
(* open opens none.                                                        *)
(***************************************************************************)
C9_ListClosedFirst ==
    /\ (LineStep /\ (NonBlankParagraphLine(last.line) \/ BlankLine(last.line))
            /\ last.before.list_started) =>
          /\ Len(last.wrote) >= 2
          /\ last.wrote[1] = "</" \o last.before.list_type \o ">"
          /\ last.wrote[2] = "\n"
          /\ Count(last.wrote, ListCloseTags) = 1
          /\ ~list_started
    /\ (LineStep /\ BlankLine(last.line) /\ ~last.before.paragraph_started) =>
          /\ ~paragraph_started
          /\ Count(last.wrote, {"<p>"}) = 0

\* A non-blank paragraph line has arrived while a list was open.
C9_Witness ==
    /\ LineStep
    /\ NonBlankParagraphLine(last.line)
    /\ last.before.list_started
    /\ Count(last.wrote, {"<p>"}) = 1

(***************************************************************************)
(* C10.  A document of one line made of n '#', a space, a content that is  *)
(* not empty and does not end in whitespace, and a newline gives           *)
(* "<hn>", the transformed content, "</hn>" and a newline, leaves both     *)
(* flags false and has nothing written at the end of the file.             *)
(***************************************************************************)
C10_HeadingAlone ==
    \A n \in 1..2 :
        LET line    == IF mdfile = <<>> THEN <<>> ELSE mdfile[1]
            content == SubSeq(line, n + 2, Len(line) - 1)
        IN  (/\ pc = "done"
             /\ Len(mdfile) = 1
             /\ Len(line) >= n + 3
             /\ \A i \in 1..n : line[i] = "#"
             /\ line[n + 1] = " "
             /\ line[Len(line)] = "\n"
             /\ content[Len(content)] \notin Whitespace) =>
                /\ htmlfile = <<"<h" \o ToString(n) \o ">">> \o process_line(content)
                                 \o <<"</h" \o ToString(n) \o ">", "\n">>
                /\ ~list_started
                /\ ~paragraph_started
                /\ last.op = "eof"
                /\ last.wrote = <<>>

\* The document "## **a**".
C10_Witness ==
    /\ pc = "done"
    /\ mdfile = << <<"#", "#", " ", "*", "*", "a", "*", "*", "\n">> >>
    /\ htmlfile = <<"<h2>", "<b>", "a", "</b>", "</h2>", "\n">>

(***************************************************************************)
(* The program from its invocation on: the two checks of the arguments,    *)
(* the opening of the files, the conversion, and a later invocation on the *)
(* same output file.  The input and the output are different files.        *)
(***************************************************************************)
\* The most invocations in a behaviour.
MaxRuns == 2

\* The most arguments of an invocation.
MaxArgs == 3

\* The arguments of an invocation: with no argument there is no first
\* argument to name a file.
Argvs == {a \in [count : 0..MaxArgs, isfile : BOOLEAN] : a.count = 0 => ~a.isfile}

\* The output file before the first invocation: absent, or left by an
\* earlier program.
Disks == { [exists |-> FALSE, content |-> <<>>],
           [exists |-> TRUE, content |-> <<"<p>", "\n", "b", "\n", "</p>", "\n">>] }

\* The lines of the documents converted by these invocations.
CliLines ==
    { <<"#", " ", "a", "\n">>,
      <<"#", "\n">>,
      <<"-", " ", "a", "\n">>,
      <<"a", "\n">>,
      <<"\n">>,
      <<"1", "\n">> }

\* open(html_file, 'w') in place of mode 'a': the content is lost.
OpenOutput_truncates(d) == [exists |-> TRUE, content |-> <<>>]

\* open(html_file, 'a'): the file is created when absent, its content kept
OpenOutput(d) == [exists |-> TRUE, content |-> d.content]

InitCLI ==
    /\ mdfile = <<>>
    /\ htmlfile = <<>>
    /\ list_started = FALSE
    /\ paragraph_started = FALSE
    /\ list_type = ""
    /\ pc = "start"
    /\ last = [op |-> "open", line |-> <<>>, wrote |-> <<>>,
               before |-> [htmlfile |-> <<>>, list_started |-> FALSE,
                           paragraph_started |-> FALSE, list_type |-> ""]]
    /\ argv \in Argvs
    /\ disk \in Disks
    /\ runs = 1
    /\ total = 0
    /\ arg = <<>>
    /\ returned = [fn |-> "none", value |-> <<>>]

\* if len(args) < 2: the usage message, exit(1)
CheckArgs ==
    /\ pc = "start"
    /\ pc' = IF argv.count < 2 THEN "exit1" ELSE "isfile"
    /\ UNCHANGED <<mdfile, htmlfile, list_started, paragraph_started, list_type, last,
                   argv, disk, runs, total, arg, returned>>

\* The test of CheckInput made after the output file is opened.
CheckInput_opensFirst ==
    /\ pc = "isfile"
    /\ pc' = IF ~argv.isfile THEN "exit1" ELSE "open"
    /\ disk' = OpenOutput(disk)
    /\ UNCHANGED <<mdfile, htmlfile, list_started, paragraph_started, list_type, last,
                   argv, runs, total, arg, returned>>

\* if not os.path.isfile(markdown_file): the missing-file message, exit(1)
CheckInput ==
    /\ pc = "isfile"
    /\ pc' = IF ~argv.isfile THEN "exit1" ELSE "open"
    /\ UNCHANGED <<mdfile, htmlfile, list_started, paragraph_started, list_type, last,
                   argv, disk, runs, total, arg, returned>>

\* The two with statements and the three assignments before the loop.
OpenFiles ==
    /\ pc = "open"
    /\ disk' = OpenOutput(disk)
    /\ mdfile' = <<>>
    /\ htmlfile' = <<>>
    /\ list_started' = FALSE
    /\ paragraph_started' = FALSE
    /\ list_type' = ""
    /\ pc' = "loop"
    /\ last' = [op |-> "open", line |-> <<>>, wrote |-> <<>>,
                before |-> [htmlfile |-> <<>>, list_started |-> FALSE,
                            paragraph_started |-> FALSE, list_type |-> ""]]
    /\ UNCHANGED <<argv, runs, total, arg, returned>>

\* The program has ended, one way or another, and is invoked again with the
\* same output path.
Invoke ==
    /\ pc \in {"done", "raised", "exit1"}
    /\ runs < MaxRuns
    /\ runs' = runs + 1
    /\ argv' \in Argvs
    /\ pc' = "start"
    /\ UNCHANGED <<mdfile, htmlfile, list_started, paragraph_started, list_type, last,
                   disk, total, arg, returned>>

NextCLI ==
    \/ CheckArgs
    \/ CheckInput
    \/ OpenFiles
    \/ \E line \in CliLines : HeadingLine(line)
    \/ \E line \in CliLines : ListLine(line)
    \/ \E line \in CliLines : ParagraphLine(line)
    \/ \E line \in CliLines : DroppedLine(line)
    \/ Flush
    \/ Invoke

SpecCLI == InitCLI /\ [][NextCLI]_vars

\* The first sequence is the beginning of the second.
IsPrefix(p, seq) == Len(p) <= Len(seq) /\ SubSeq(seq, 1, Len(p)) = p

(***************************************************************************)
(* C11.  The output file only grows: at every step its previous content is *)
(* the beginning of its new content and it is never removed, so that a     *)
(* second invocation keeps the output of the first and writes after it.    *)
(***************************************************************************)
C11_AppendOnly ==
    [][/\ IsPrefix(disk.content, disk'.content)
       /\ disk.exists => disk'.exists]_vars

\* A second invocation has written after the output of the first.
C11_Witness ==
    /\ runs = 2
    /\ pc = "done"
    /\ htmlfile # <<>>
    /\ Count(htmlfile, {"<h1>"}) = 0
    /\ Count(disk.content, {"<h1>"}) = 1
    /\ EndsWith(disk.content, htmlfile)

(***************************************************************************)
(* C12.  The two checks end the program with exit(1) and leave the output  *)
(* file alone: with fewer than two arguments the program exits before the  *)
(* input path is looked at, with an input that is not a regular file it    *)
(* exits before the output is opened, and the output file is created or    *)
(* written only once both checks have passed.                              *)
(***************************************************************************)
C12_ChecksLeaveOutputAlone ==
    [][/\ (pc = "start" /\ argv.count < 2) => pc' = "exit1"
       /\ (pc = "isfile" /\ ~argv.isfile) => pc' = "exit1"
       /\ pc' = "exit1" => disk' = disk
       /\ (pc' = "exit1" /\ runs = 1) => disk' \in Disks
       /\ disk' # disk => /\ argv.count >= 2
                          /\ argv.isfile
                          /\ pc \in {"open", "loop"}]_vars

\* The input is missing, the program has exited and no output file exists.
C12_Witness ==
    /\ pc = "exit1"
    /\ argv.count >= 2
    /\ ~argv.isfile
    /\ ~disk.exists

(***************************************************************************)
(* The inline transforms on their own: one call of one of them on a text.  *)
(* The texts are those made of at most MaxPieces pieces, and a few written *)
(* out to bring in '[[' and ']]', capital letters and single delimiter     *)
(* characters.                                                             *)
(***************************************************************************)
\* The most pieces in a text.
MaxPieces == 5

Pieces == { <<"*", "*">>, <<"_", "_">>, <<"(", "(">>, <<")", ")">>, <<"c">>, <<"a">> }

PieceTexts == {Join(ps) : ps \in UNION {[1..n -> Pieces] : n \in 0..MaxPieces}}

TextCatalogue ==
    { <<"a", "[", "[", "f", "o", "o", "]", "]", "b">>,                 \* a[[foo]]b
      <<"[", "[", "a", "]", "]", "c", "[", "[", "c", "]", "]">>,       \* [[a]]c[[c]]
      <<"[", "[", "a">>,                                               \* [[a
      <<"a", "]", "]">>,                                               \* a]]
      <<"]", "]", "a", "[", "[">>,                                     \* ]]a[[
      <<"(", "(", "C", "o", "o", "l", " ", "c", "a", "t", ")", ")">>,  \* ((Cool cat))
      <<"(", "(", "C", "a", "t", ")", ")", "a", "(", "(", "c", ")", ")">>,  \* ((Cat))a((c))
      <<"(", "(", "[", "[", "a", "]", "]", ")", ")">>,                 \* (([[a]]))
      <<"[", "[", "*", "*", "a", "*", "*", "]", "]">>,                 \* [[**a**]]
      <<"*", "*", "a", "*", "*", " ", "*", "(", "(", "c", ")", ")", "*">>,  \* **a** *((c))*
      <<"*", "a", "_", "(", "b", ")", "[", "c", "]">> }                \* *a_(b)[c]

Texts == PieceTexts \cup TextCatalogue

InitInline ==
    /\ mdfile = <<>>
    /\ htmlfile = <<>>
    /\ list_started = FALSE
    /\ paragraph_started = FALSE
    /\ list_type = ""
    /\ pc = "call"
    /\ last = [op |-> "open", line |-> <<>>, wrote |-> <<>>,
               before |-> [htmlfile |-> <<>>, list_started |-> FALSE,
                           paragraph_started |-> FALSE, list_type |-> ""]]
    /\ argv = [count |-> 2, isfile |-> TRUE]
    /\ disk = [exists |-> TRUE, content |-> <<>>]
    /\ runs = 1
    /\ total = 0
    /\ arg \in Texts
    /\ returned = [fn |-> "none", value |-> <<>>]

\* A call returns: the value is recorded, nothing else changes.
Returns(fn, value) ==
    /\ pc = "call"
    /\ pc' = "returned"
    /\ returned' = [fn |-> fn, value |-> value]
    /\ UNCHANGED <<mdfile, htmlfile, list_started, paragraph_started, list_type, last,
                   argv, disk, runs, total, arg>>

CallBold == Returns("bold", bold_emphasis(arg, Bold))

CallEmphasis == Returns("emphasis", bold_emphasis(arg, Emphasis))

CallTextToMd5 == Returns("text_to_md5", text_to_md5(arg))

CallRemoveC == Returns("remove_c", remove_c(arg))

CallProcessLine == Returns("process_line", process_line(arg))

NextInline ==
    \/ CallBold
    \/ CallEmphasis
    \/ CallTextToMd5
    \/ CallRemoveC
    \/ CallProcessLine

SpecInline == InitInline /\ [][NextInline]_vars

\* How many times a two-character delimiter occurs in a text, as split sees it.
Occurrences(t, sep) == Len(Split(t, sep)) - 1

\* One sequence occurs inside another.
Within(sub, seq) ==
    \E i \in 0..(Len(seq) - Len(sub)) : SubSeq(seq, i + 1, i + Len(sub)) = sub

\* The call that has returned was a call of bold_emphasis, with this delimiter.
PairedMarkupCall(markdown) ==
    /\ pc = "returned"
    /\ returned.fn = (IF markdown = Bold THEN "bold" ELSE "emphasis")

(***************************************************************************)
(* C13.  When the delimiter occurs an odd number of times, bold_emphasis   *)
(* leaves the text after the last occurrence unwrapped: the result ends    *)
(* with that text as it was, with no opening tag before it and no closing  *)
(* tag after it.                                                           *)
(***************************************************************************)
C13_UnmatchedSegmentUnwrapped ==
    \A markdown \in {Bold, Emphasis} :
        (PairedMarkupCall(markdown) /\ Occurrences(arg, markdown) % 2 = 1) =>
            LET parts == Split(arg, markdown)
                final == parts[Len(parts)]
                value == returned.value
            IN  /\ EndsWith(value, final)
                /\ Count(value, {"<" \o Tag(markdown) \o ">"}) = (Len(parts) - 2) \div 2
                /\ Count(value, {"</" \o Tag(markdown) \o ">"}) = (Len(parts) - 2) \div 2

\* The later passes of process_line leave X alone and have no bracketed
\* span to replace.
OnlyBoldApplies(t, X) ==
    /\ ~Contains(X, Emphasis)
    /\ ~(Contains(t, <<"[", "[">>) /\ Contains(t, <<"]", "]">>))
    /\ ~(Contains(t, <<"(", "(">>) /\ Contains(t, <<")", ")">>))

(***************************************************************************)
(* C14, as claimed.  For every text with exactly two occurrences of "**",  *)
(* whatever other markers X or the rest of the line contains, the result   *)
(* of process_line contains "<b>", X, "</b>" and no "**".                  *)
(***************************************************************************)
C14_Original ==
    (pc = "returned" /\ returned.fn = "process_line" /\ Occurrences(arg, Bold) = 2) =>
        LET X == Split(arg, Bold)[2]
        IN  /\ Within(<<"<b>">> \o X \o <<"</b>">>, returned.value)
            /\ ~Contains(returned.value, Bold)

(***************************************************************************)
(* C14, amended.  The same, for the texts in which X contains no "__" and  *)
(* which do not contain both "[[" and "]]" nor both "((" and "))".         *)
(***************************************************************************)
C14_BoldAlone ==
    (pc = "returned" /\ returned.fn = "process_line" /\ Occurrences(arg, Bold) = 2) =>
        LET X == Split(arg, Bold)[2]
        IN  OnlyBoldApplies(arg, X) =>
                /\ Within(<<"<b>">> \o X \o <<"</b>">>, returned.value)
                /\ ~Contains(returned.value, Bold)

\* Such a text, with "__" before the bold span and "((" after it.
C14_Witness ==
    /\ pc = "returned"
    /\ returned.fn = "process_line"
    /\ Occurrences(arg, Bold) = 2
    /\ Split(arg, Bold)[2] = <<"c">>
    /\ OnlyBoldApplies(arg, <<"c">>)
    /\ Contains(arg, Emphasis)
    /\ Contains(arg, <<"(", "(">>)

\* The six delimiter substrings.
Delimiters ==
    {Bold, Emphasis, <<"[", "[">>, <<"]", "]">>, <<"(", "(">>, <<")", ")">>}

(***************************************************************************)
(* C15.  process_line returns a text that contains none of the six         *)
(* delimiter substrings as it is, and each bracket substitution returns    *)
(* its text as it is when one of its two delimiters is absent.             *)
(***************************************************************************)
C15_IdentityOnPlainText ==
    /\ (pc = "returned" /\ returned.fn = "process_line"
            /\ \A d \in Delimiters : ~Contains(arg, d)) =>
          returned.value = arg
    /\ (pc = "returned" /\ returned.fn = "text_to_md5"
            /\ (~Contains(arg, <<"[", "[">>) \/ ~Contains(arg, <<"]", "]">>))) =>
          returned.value = arg
    /\ (pc = "returned" /\ returned.fn = "remove_c"
            /\ (~Contains(arg, <<"(", "(">>) \/ ~Contains(arg, <<")", ")">>))) =>
          returned.value = arg

\* process_line has returned a text made of letters and of single
\* delimiter characters.
C15_Witness ==
    /\ pc = "returned"
    /\ returned.fn = "process_line"
    /\ arg = <<"*", "a", "_", "(", "b", ")", "[", "c", "]">>
    /\ returned.value = arg

\* What closes the list that was open before the last step, if one was.
ListClosing ==
    IF last.before.list_started
    THEN <<"</" \o last.before.list_type \o ">", "\n">>
    ELSE <<>>

(***************************************************************************)
(* C16, as claimed.  A non-blank paragraph line read while no paragraph is *)
(* open writes "<p>" and then at once the transformed, trimmed content of  *)
(* the line, with no newline after the tag.                                *)
(***************************************************************************)
C16_Original ==
    (LineStep /\ NonBlankParagraphLine(last.line)
        /\ ~last.before.paragraph_started) =>
          last.wrote = ListClosing \o <<"<p>">> \o process_line(Strip(last.line))

(***************************************************************************)
(* C16, amended.  A non-blank paragraph line read while no paragraph is    *)
(* open writes "<p>", a newline, and then the transformed, trimmed content *)
(* of the line with no newline after it; the closing tag of an open list   *)
(* comes before the "<p>".                                                 *)
(***************************************************************************)
C16_ParagraphOpening ==
    (LineStep /\ NonBlankParagraphLine(last.line)
        /\ ~last.before.paragraph_started) =>
          /\ last.wrote = ListClosing \o <<"<p>", "\n">>
                              \o process_line(Strip(last.line))
          /\ paragraph_started

\* A paragraph has been opened by a line whose content the transforms change.
C16_Witness ==
    /\ LineStep
    /\ NonBlankParagraphLine(last.line)
    /\ ~last.before.paragraph_started
    /\ ~last.before.list_started
    /\ process_line(Strip(last.line)) # Strip(last.line)
    /\ Len(last.wrote) >= 3
    /\ last.wrote[1] = "<p>"

\* Where a two-character delimiter occurs in a text.
Positions(t, d) == {i \in 1..(Len(t) - 1) : t[i] = d[1] /\ t[i + 1] = d[2]}

\* The text has a first span: its first opening delimiter ends before its
\* first closing delimiter begins.
FirstSpan(t, open, close) ==
    /\ Positions(t, open) # {}
    /\ Positions(t, close) # {}
    /\ Min(Positions(t, open)) + 2 <= Min(Positions(t, close))

\* The text has a second well-formed span after its first one.
SecondSpan(t, open, close) ==
    /\ FirstSpan(t, open, close)
    /\ \E o2 \in Positions(t, open), c2 \in Positions(t, close) :
          /\ Min(Positions(t, close)) + 2 <= o2
          /\ o2 + 2 <= c2

\* What a substitution must return for a text with a first span: the text
\* before the span, the replacement of what is between its delimiters, and
\* all that follows its closing delimiter, as it was.
FirstSpanReplaced(t, open, close, Replacement(_)) ==
    LET o == Min(Positions(t, open))
        c == Min(Positions(t, close))
    IN  SubSeq(t, 1, o - 1) \o Replacement(SubSeq(t, o + 2, c - 1))
            \o SubSeq(t, c + 2, Len(t))

WithoutC(t) ==
    LET Kept(ch) == ch \notin {"C", "c"}
    IN  SelectSeq(t, Kept)

(***************************************************************************)
(* C17.  Each bracket substitution replaces the first span only: the text  *)
(* before it and everything after its closing delimiter, a second span     *)
(* with its delimiters included, are returned as they were; the span and   *)
(* its delimiters become the digest of its content (text_to_md5), or its   *)
(* content without 'C' and 'c' (remove_c).  "((Cool cat))" gives "ool at". *)
(***************************************************************************)
C17_FirstPairOnly ==
    /\ (pc = "returned" /\ returned.fn = "text_to_md5"
            /\ FirstSpan(arg, <<"[", "[">>, <<"]", "]">>)) =>
          returned.value = FirstSpanReplaced(arg, <<"[", "[">>, <<"]", "]">>, hexdigest)
    /\ (pc = "returned" /\ returned.fn = "remove_c"
            /\ FirstSpan(arg, <<"(", "(">>, <<")", ")">>)) =>
          returned.value = FirstSpanReplaced(arg, <<"(", "(">>, <<")", ")">>, WithoutC)
    /\ (pc = "returned" /\ returned.fn = "remove_c"
            /\ arg = <<"(", "(", "C", "o", "o", "l", " ", "c", "a", "t", ")", ")">>) =>
          returned.value = <<"o", "o", "l", " ", "a", "t">>

\* remove_c has returned from a text of two spans, the second one holding
\* a 'c' that is still there.
C17_Witness ==
    /\ pc = "returned"
    /\ returned.fn = "remove_c"
    /\ SecondSpan(arg, <<"(", "(">>, <<")", ")">>)
    /\ arg = <<"(", "(", "C", "a", "t", ")", ")", "a", "(", "(", "c", ")", ")">>
    /\ returned.value = <<"a", "t", "a", "(", "(", "c", ")", ")">>

\* The closing tag that matches a list opening tag.
ClosingOf(tag) ==
    CASE tag = "<ul>" -> "</ul>"
      [] tag = "<ol>" -> "</ol>"
      [] OTHER        -> "</>"

(***************************************************************************)
(* C18.  Every list closing tag in the output has the kind of the list     *)
(* opening tag that is unmatched where it is written, the last one before  *)
(* it: "<ul>" is closed by "</ul>" and "<ol>" by "</ol>", whatever the     *)
(* markers of the item lines in between.                                   *)
(***************************************************************************)
C18_ClosingMatchesOpening ==
    \A i \in 1..Len(htmlfile) :
        htmlfile[i] \in ListCloseTags =>
            LET opens == {j \in 1..(i - 1) : htmlfile[j] \in ListOpenTags}
            IN  /\ opens # {}
                /\ htmlfile[i] = ClosingOf(htmlfile[CHOOSE j \in opens :
                                                       \A k \in opens : k <= j])

\* An opening heading tag, of any level.
HeadingOpenTag(e) == \E n \in 1..9 : e = "<h" \o ToString(n) \o ">"

\* What closes the blocks that were open before the last step, as the
\* heading section writes it.
BlocksClosing ==
    ListClosing \o (IF last.before.paragraph_started THEN <<"</p>", "\n">> ELSE <<>>)

(***************************************************************************)
(* C19.  After every line that starts with '#', list_started and           *)
(* paragraph_started are both false; what the line wrote begins with the   *)
(* closing tag of the block that was open and has no closing tag of a      *)
(* block after that; and every opening heading tag of the output comes     *)
(* where as many lists and paragraphs have been closed as opened.          *)
(***************************************************************************)
C19_HeadingOutsideBlocks ==
    /\ (LineStep /\ HeadingMarkerLine(last.line)) =>
          /\ ~list_started
          /\ ~paragraph_started
          /\ Len(last.wrote) >= Len(BlocksClosing)
          /\ SubSeq(last.wrote, 1, Len(BlocksClosing)) = BlocksClosing
          /\ Count(SubSeq(last.wrote, Len(BlocksClosing) + 1, Len(last.wrote)),
                   ListCloseTags \cup {"</p>"}) = 0
    /\ \A i \in 1..Len(htmlfile) :
          HeadingOpenTag(htmlfile[i]) =>
              LET written == SubSeq(htmlfile, 1, i - 1)
              IN  /\ Count(written, ListOpenTags) = Count(written, ListCloseTags)
                  /\ Count(written, {"<p>"}) = Count(written, {"</p>"})

\* A heading has been written by a line read while a paragraph was open.
C19_Witness ==
    /\ LineStep
    /\ HeadingMarkerLine(last.line)
    /\ last.before.paragraph_started
    /\ Len(last.wrote) > Len(BlocksClosing)
    /\ HeadingOpenTag(last.wrote[Len(BlocksClosing) + 1])

(***************************************************************************)
(* C20.  For a text that holds both "((" and "))", in whatever order they  *)
(* first occur, remove_c returns the text before the first "((", then      *)
(* what is left of the span, then the text after the first "))": each      *)
(* character outside the span once, in order, so that the result is        *)
(* shorter than the text by the four delimiter characters at least.        *)
(***************************************************************************)
C20_OnlySpanChanges ==
    (pc = "returned" /\ returned.fn = "remove_c"
        /\ Positions(arg, <<"(", "(">>) # {} /\ Positions(arg, <<")", ")">>) # {}) =>
          LET o       == Min(Positions(arg, <<"(", "(">>))
              c       == Min(Positions(arg, <<")", ")">>))
              outside == Len(SubSeq(arg, 1, o - 1)) + Len(SubSeq(arg, c + 2, Len(arg)))
          IN  /\ Len(returned.value) <= Len(arg) - 4
              /\ Len(returned.value) >= outside
              /\ SubSeq(returned.value, 1, o - 1) = SubSeq(arg, 1, o - 1)
              /\ EndsWith(returned.value, SubSeq(arg, c + 2, Len(arg)))
====
